---- MODULE Spec2Model ----
(***************************************************************************)
(* go-memcached: the sharded LRU cache engine (pkg/cache/lru.go) and the   *)
(* connection handler of the memcached text protocol (pkg/server), with    *)
(* the acceptor, the worker pool and the shutdown of the server.           *)
(*                                                                         *)
(* The recency list of a bucket (container/list) is a sequence whose first *)
(* element is the front of the list; the hash table of a bucket is the set *)
(* of keys it maps, the element a key maps to being the list element that  *)
(* holds the entry of that key.  The table and the list are separate       *)
(* fields, updated separately, as in the code.                             *)
(***************************************************************************)
EXTENDS Integers, Sequences, FiniteSets, TLC

(***************************************************************************)
(* Bounds of the model.                                                    *)
(***************************************************************************)
\* largest total capacity (bytes) an engine of SpecEngine is built with
MaxCapacity == 6
\* largest number of buckets an engine is built with
MaxBuckets == 2
\* number of cas tokens the engine may issue in one run
MaxToken == 3
\* largest number of workers a server is started with
MaxWorkers == 2
\* largest max-num-connections a server is started with
MaxConnections == 1
\* number of requests a client sends on one connection
MaxRequests == 2
\* number of requests a client of SpecServer sends on one connection
MaxServerRequests == 1
\* width in bits of the word that holds Bucket.size (the model's stand-in
\* for the 64 bits of uint64)
SizeBits == 16

(***************************************************************************)
(* Program constants.                                                      *)
(***************************************************************************)
maxKeyLength == 250

(***************************************************************************)
(* Keys and values.  A key is named by a short string; KeyBytes gives the  *)
(* bytes it stands for (what len(key) and the hash read).                  *)
(***************************************************************************)
ShortKeys == {"a", "b", "c", "d"}
LongKeys == {"K250", "K251"}
Keys == ShortKeys \cup LongKeys

KeyBytes ==
  [k \in Keys |->
     CASE k = "a" -> <<97>>
       [] k = "b" -> <<98>>
       [] k = "c" -> <<99>>
       [] k = "d" -> <<100>>
       [] k = "K250" -> [i \in 1..maxKeyLength |-> 97]
       [] OTHER -> [i \in 1..(maxKeyLength + 1) |-> 97]]

\* values are byte strings
Values == {<< >>, <<120>>, <<121, 122>>}
FlagValues == {0, 13}
\* the value and flags of the entries the caller of SpecEngine adds
Payloads ==
  { [value |-> << >>, flags |-> 0],
    [value |-> <<120>>, flags |-> 13],
    [value |-> <<121, 122>>, flags |-> 0] }

NoKey == "-"

(***************************************************************************)
(* hash/fnv New32a, on 32-bit words kept as two 16-bit halves <<hi, lo>>.  *)
(***************************************************************************)
RECURSIVE xorBits(_, _, _)
xorBits(x, y, n) ==
  IF n = 0 THEN 0
  ELSE (((x % 2) + (y % 2)) % 2) + 2 * xorBits(x \div 2, y \div 2, n - 1)

\* one round of FNV-1a: h = (h XOR byte) * 16777619 mod 2^32
fnvRound(h, byte) ==
  LET lo == xorBits(h[2], byte, 16)
      p  == lo * 403
  IN  << ((h[1] * 403) + (lo * 256) + (p \div 65536)) % 65536, p % 65536 >>

\* the rounds of bytes[from..to], folded by halves (a flat recursion depth)
RECURSIVE fnvFold(_, _, _, _)
fnvFold(h, bytes, from, to) ==
  IF from > to THEN h
  ELSE IF from = to THEN fnvRound(h, bytes[from])
  ELSE LET mid  == (from + to) \div 2
           left == fnvFold(h, bytes, from, mid)
       IN  IF left[1] >= 0 THEN fnvFold(left, bytes, mid + 1, to) ELSE left

\* LRU.hash: offset basis 2166136261 = 0x811C9DC5
hash(key) == fnvFold(<<33052, 40389>>, KeyBytes[key], 1, Len(KeyBytes[key]))

KeyHash ==
  "a" :> hash("a") @@ "b" :> hash("b") @@ "c" :> hash("c") @@ "d" :> hash("d")
    @@ "K250" :> hash("K250") @@ "K251" :> hash("K251")

\* an engine that keeps every key in its first bucket
bucketIndexFirst(key, n) == 0

\* lru.hash(key) % lru.numBuckets
bucketIndex(key, n) ==
  LET h == KeyHash[key]
  IN  ((h[1] % n) * (65536 % n) + (h[2] % n)) % n

(***************************************************************************)
(* entry and Bucket.                                                       *)
(***************************************************************************)
newEntry(key, value, flags, cas) ==
  [key |-> key, value |-> value, flags |-> flags, cas |-> cas]

NoEntry == [key |-> NoKey, value |-> << >>, flags |-> 0, cas |-> 0]

\* entry.size
size(e) == Len(KeyBytes[e.key]) + Len(e.value)

NewBucket(cap) ==
  [capacity |-> cap, size |-> 0, elements |-> {}, evictList |-> << >>]

\* NewLRU: numBuckets buckets of capacity / numBuckets bytes each
NewLRU(cap, n) == [i \in 0..(n - 1) |-> NewBucket(cap \div n)]

\* position of the list element holding the entry of key (0: none)
indexOf(list, key) ==
  IF \E i \in 1..Len(list) : list[i].key = key
  THEN CHOOSE i \in 1..Len(list) : list[i].key = key
  ELSE 0

\* the entry behind bucket.elements[key]
entryOf(bucket, key) ==
  LET i == indexOf(bucket.evictList, key)
  IN  IF i = 0 THEN NoEntry ELSE bucket.evictList[i]

\* list.Remove
listRemove(list, i) ==
  IF i = 0 THEN list
  ELSE SubSeq(list, 1, i - 1) \o SubSeq(list, i + 1, Len(list))

\* list.MoveToFront
listMoveToFront(list, i) ==
  IF i = 0 THEN list ELSE <<list[i]>> \o listRemove(list, i)

\* Bucket.addElement
addElement(bucket, key, value, flags, cas) ==
  LET e == newEntry(key, value, flags, cas)
  IN  [bucket EXCEPT !.evictList = <<e>> \o @,
                     !.elements = @ \cup {key},
                     !.size = @ + size(e)]

\* updateElement that forgets the size of the value it replaces
updateElementNoOldSize(bucket, key, value, flags, cas) ==
  LET i    == indexOf(bucket.evictList, key)
      e    == newEntry(key, value, flags, cas)
      list == IF i = 0 THEN bucket.evictList
              ELSE [bucket.evictList EXCEPT ![i] = e]
  IN  [bucket EXCEPT !.evictList = listMoveToFront(list, i),
                     !.size = @ + size(e)]

\* unsigned arithmetic of the width of Bucket.size
wrap(x) == x % (2 ^ SizeBits)

\* updateElement whose sum is kept in a wider word than its difference
updateElementWide(bucket, key, value, flags, cas) ==
  LET i       == indexOf(bucket.evictList, key)
      oldSize == size(entryOf(bucket, key))
      e       == newEntry(key, value, flags, cas)
      list    == IF i = 0 THEN bucket.evictList
                 ELSE [bucket.evictList EXCEPT ![i] = e]
  IN  [bucket EXCEPT !.evictList = listMoveToFront(list, i),
                     !.size = @ + wrap(size(e) - oldSize)]

\* Bucket.updateElement: bucket.size += e.size() - oldSize, the difference
\* and the sum both in unsigned arithmetic
updateElement(bucket, key, value, flags, cas) ==
  LET i       == indexOf(bucket.evictList, key)
      oldSize == size(entryOf(bucket, key))
      e       == newEntry(key, value, flags, cas)
      list    == IF i = 0 THEN bucket.evictList
                 ELSE [bucket.evictList EXCEPT ![i] = e]
  IN  [bucket EXCEPT !.evictList = listMoveToFront(list, i),
                     !.size = wrap(@ + wrap(size(e) - oldSize))]

\* refreshElement that leaves the element where it is
refreshElementNoMove(bucket, key) == bucket

\* refreshElement that counts the size of the element once more
refreshElementRecount(bucket, key) ==
  [bucket EXCEPT !.evictList = listMoveToFront(@, indexOf(@, key)),
                 !.size = @ + size(entryOf(bucket, key))]

\* Bucket.refreshElement
refreshElement(bucket, key) ==
  [bucket EXCEPT !.evictList = listMoveToFront(@, indexOf(@, key))]

\* deleteElement that leaves the key in the table
deleteElementKeepKey(bucket, key) ==
  [bucket EXCEPT !.evictList = listRemove(@, indexOf(@, key)),
                 !.size = @ - size(entryOf(bucket, key))]

\* deleteElement that leaves the size of the bucket as it is
deleteElementKeepSize(bucket, key) ==
  [bucket EXCEPT !.elements = @ \ {key},
                 !.evictList = listRemove(@, indexOf(@, key))]

\* Bucket.deleteElement
deleteElement(bucket, key) ==
  [bucket EXCEPT !.elements = @ \ {key},
                 !.evictList = listRemove(@, indexOf(@, key)),
                 !.size = @ - size(entryOf(bucket, key))]

\* checkCapacity that evicts one element at most (an if for the loop)
checkCapacityOnce(bucket) ==
  IF bucket.size > bucket.capacity /\ bucket.evictList # << >>
  THEN deleteElement(bucket, bucket.evictList[Len(bucket.evictList)].key)
  ELSE bucket

\* checkCapacity that never evicts the front element of the list
RECURSIVE checkCapacityKeepFront(_)
checkCapacityKeepFront(bucket) ==
  IF bucket.size > bucket.capacity /\ Len(bucket.evictList) > 1
  THEN checkCapacityKeepFront(
         deleteElement(bucket, bucket.evictList[Len(bucket.evictList)].key))
  ELSE bucket

\* checkCapacity that evicts as soon as the bucket is full
RECURSIVE checkCapacityEager(_)
checkCapacityEager(bucket) ==
  IF bucket.size >= bucket.capacity /\ bucket.evictList # << >>
  THEN checkCapacityEager(
         deleteElement(bucket, bucket.evictList[Len(bucket.evictList)].key))
  ELSE bucket

\* Bucket.checkCapacity
RECURSIVE checkCapacity(_)
checkCapacity(bucket) ==
  IF bucket.size > bucket.capacity
  THEN IF bucket.evictList = << >>
       THEN bucket
       ELSE checkCapacity(
              deleteElement(bucket, bucket.evictList[Len(bucket.evictList)].key))
  ELSE bucket

\* a variant of LRU.Add that returns without touching the bucket
addLockedNothing(bucket, key, value, flags, newCas) == bucket

\* the section of LRU.Add that runs under bucket.Lock
addLocked(bucket, key, value, flags, newCas) ==
  checkCapacity(IF key \in bucket.elements
                THEN updateElement(bucket, key, value, flags, newCas)
                ELSE addElement(bucket, key, value, flags, newCas))

(***************************************************************************)
(* The text protocol: what a client sends and what the handler writes.     *)
(***************************************************************************)
cmdCas == "cas"
cmdDelete == "delete"
cmdGet == "get"
cmdGets == "gets"
cmdQuit == "quit"
cmdSet == "set"
cmdHire == "hireeric?"

\* the commands that have a counter of their own
countedCmds == {cmdCas, cmdDelete, cmdGet, cmdGets, cmdSet}

replyLine(text) == [line |-> text]
replyDeleted == replyLine("DELETED")
replyEnd == replyLine("END")
replyError == replyLine("ERROR")
replyExists == replyLine("EXISTS")
replyNotFound == replyLine("NOT_FOUND")
replyNotStored == replyLine("NOT_STORED")
replyStored == replyLine("STORED")
replyYes == replyLine("totes")

ErrInsufficientArgs == "Insufficient args"
ErrCacheMiss == "Cache miss"
ErrEOF == "EOF"
ErrTimeout == "i/o timeout"
NoError == "nil"

\* "CLIENT_ERROR <err>\r\n"
clientError(msg) == [line |-> "CLIENT_ERROR", msg |-> msg]
keyTooLong == clientError("key is too long (max is 250 bytes)")

\* "VALUE <key> <flags> <len(value)>\r\n<value>\r\n" without the flags
valueBlockZeroFlags(key, flags, value) ==
  [line |-> "VALUE", key |-> key, flags |-> 0, bytes |-> Len(value),
   data |-> value]

\* "VALUE <key> <flags> <len(value)>\r\n<value>\r\n", the block of get
valueBlock(key, flags, value) ==
  [line |-> "VALUE", key |-> key, flags |-> flags, bytes |-> Len(value),
   data |-> value]

\* the block of gets without the token of the entry
valueBlockCasNoToken(key, flags, value, cas) ==
  [line |-> "VALUE", key |-> key, flags |-> flags, bytes |-> Len(value),
   cas |-> 0, data |-> value]

\* "VALUE <key> <flags> <len(value)> <cas>\r\n<value>\r\n", the block of gets
valueBlockCas(key, flags, value, cas) ==
  [line |-> "VALUE", key |-> key, flags |-> flags, bytes |-> Len(value),
   cas |-> cas, data |-> value]

\* Request; err is NoError for a nil error
NoRequest ==
  [cmd |-> "", keys |-> << >>, flags |-> 0, expTime |-> 0, n |-> 0,
   cas |-> 0, dataBlock |-> << >>, err |-> NoError]

errRequest(err) == [NoRequest EXCEPT !.err = err]

\* A command line is its command, the words that follow it and the decimal
\* numbers that follow the words.
commandLine(cmd, words, nums) == [cmd |-> cmd, words |-> words, nums |-> nums]
emptyLine == commandLine("", << >>, << >>)

\* fmt.Sscanf of "%s%s" and count times "%d": nil when the line has the key
\* and count numbers
sscanfError(line, count) ==
  IF Len(line.words) > 1 THEN "expected integer"
  ELSE IF Len(line.words) < 1 \/ Len(line.nums) < count THEN "unexpected EOF"
  ELSE NoError

parseRequest(line) ==
  IF line = emptyLine THEN errRequest("no command provided")
  ELSE LET r == [NoRequest EXCEPT !.cmd = line.cmd]
       IN  CASE line.cmd = cmdCas ->
                  IF sscanfError(line, 4) # NoError
                  THEN [r EXCEPT !.err = sscanfError(line, 4)]
                  ELSE [r EXCEPT !.keys = <<line.words[1]>>,
                                 !.flags = line.nums[1],
                                 !.expTime = line.nums[2],
                                 !.n = line.nums[3],
                                 !.cas = line.nums[4]]
             [] line.cmd = cmdDelete ->
                  IF Len(line.words) < 1
                  THEN [r EXCEPT !.err = ErrInsufficientArgs]
                  ELSE [r EXCEPT !.keys = <<line.words[1]>>]
             [] line.cmd \in {cmdGet, cmdGets} ->
                  [r EXCEPT !.keys = line.words]
             [] line.cmd = cmdSet ->
                  IF sscanfError(line, 3) # NoError
                  THEN [r EXCEPT !.err = sscanfError(line, 3)]
                  ELSE [r EXCEPT !.keys = <<line.words[1]>>,
                                 !.flags = line.nums[1],
                                 !.expTime = line.nums[2],
                                 !.n = line.nums[3]]
             [] OTHER -> r

\* What a client sends for one request: a command line and, for set and
\* cas, a data line; end tells where the stream ends (0: it does not, 1:
\* before the command line, 2: before the data line) or where the read
\* deadline cuts it (3: before the command line, with no byte of it read,
\* 4: within the command line, before its end of line).
clientInput(line, data) == [line |-> line, data |-> data, end |-> 0]
endOfStream == [line |-> emptyLine, data |-> << >>, end |-> 1]
readTimeout(pending) ==
  [line |-> emptyLine, data |-> << >>, end |-> IF pending THEN 4 ELSE 3]

\* the error of the Read under scanner.Scan that found the stream at its end
readError(in) ==
  CASE in.end \in {1, 2} -> ErrEOF
    [] in.end \in {3, 4} -> ErrTimeout
    [] OTHER -> NoError

\* a variant of the length check that takes only a data line of exactly n
\* bytes
tooLongDataExact(data, n) == Len(data) # n

\* if len(data) > request.n
tooLongData(data, n) == Len(data) > n

ErrDataTooLong == "data block provided is too long"

\* One round of connReader: the Request it sends to the handler.  Scan
\* returns false when the Read fails and no byte of a line is pending,
\* whatever the error, and true with the pending bytes as its token
\* otherwise; scanner.Err is then nil for io.EOF and the error of the Read
\* for any other.
connReader(in) ==
  IF in.end \in {1, 3} THEN errRequest(ErrEOF)
  ELSE IF in.end = 4 THEN errRequest(ErrTimeout)
  ELSE LET request == parseRequest(in.line)
       IN  IF request.err # NoError THEN request
           ELSE IF request.cmd \in {cmdSet, cmdCas}
           THEN IF in.end = 2 THEN errRequest(ErrEOF)
                ELSE IF tooLongData(in.data, request.n)
                THEN errRequest(ErrDataTooLong)
                ELSE [request EXCEPT !.dataBlock = in.data]
           ELSE request

(***************************************************************************)
(* State.                                                                  *)
(***************************************************************************)
Conns == {"c1", "c2", "c3"}
\* the order in which the clients connect
arrival == <<"c1", "c2", "c3">>
NoConn == "-"
\* no line is left unread
NoLine == <<-1>>

VARIABLES
  capacity,    \* LRU.capacity
  numBuckets,  \* LRU.numBuckets
  buckets,     \* LRU.buckets: bucket index -> Bucket
  casToken,    \* LRU.casToken
  readers,     \* bucket index -> number of holders of bucket.RLock
  conns,       \* the connections that have a handler
  workload,    \* which requests the clients send
  numWorkers,  \* Server.numWorkers
  maxNumConnections,  \* Server.maxNumConnections
  listening,   \* Server.listener is open
  queue,       \* the channel conns of Start: accepted connections, oldest first
  held,        \* the connection the acceptor is sending on conns, or NoConn
  nAccepted,   \* number of connections Accept has returned
  worker,      \* worker -> the connection it took last, NoConn or "done"
  quit,        \* Server.quit is closed
  stopPc,      \* where Stop stands
  reader,      \* connection -> its connReader goroutine
  reqNo,       \* connection -> number of the client request being answered
  errNumUnsupportedCmds,  \* StatsErrNumUnsupportedCmds
  stats,       \* command -> StatsNumCas, ..Delete, ..Get, ..Gets, ..Set
  deadline,    \* connection -> its read deadline: "none", "set" or "passed"
  pc,          \* connection -> where its handler stands
  request,     \* connection -> the Request its handler is serving
  idx,         \* connection -> position in request.keys of get and gets
  newCas,      \* connection -> newCas of the LRU.Add it is in
  out,         \* connection -> replies written for its latest request
  lastOp,      \* the engine operation that took effect last, and what it did
  touched,     \* resident keys, least recently touched first (observer)
  casWon       \* tokens with which a cas was answered STORED (observer)

engineVars == <<capacity, numBuckets, buckets, casToken, readers>>
configVars == <<workload, numWorkers, maxNumConnections>>
acceptVars == <<listening, queue, held, nAccepted, worker>>
stopVars == <<quit, stopPc>>
connVars == <<reader, reqNo, errNumUnsupportedCmds, deadline>>
poolVars == <<conns, configVars, acceptVars, stopVars, connVars>>
serverVars == <<poolVars, stats>>
handlerVars == <<pc, request, idx, newCas, out>>
ghostVars == <<lastOp, touched, casWon>>
vars == <<engineVars, serverVars, handlerVars, ghostVars>>

bucketOf(key) == bucketIndex(key, numBuckets)

NoOp == [op |-> "none", conn |-> "-", cmd |-> "", key |-> NoKey,
         hit |-> FALSE, updated |-> FALSE, evicted |-> << >>,
         byTouch |-> << >>, value |-> << >>, flags |-> 0,
         follows |-> FALSE]

\* who calls the engine: a handler serving a request, or a direct caller
caller(c) == [conn |-> c, cmd |-> request[c].cmd, reqCas |-> request[c].cas]
direct == [conn |-> "-", cmd |-> "", reqCas |-> 0]

seqRange(s) == {s[i] : i \in 1..Len(s)}
keysOf(list) == [i \in 1..Len(list) |-> list[i].key]
without(s, key) == SelectSeq(s, LAMBDA x : x # key)

\* a key is touched: it becomes the most recently touched one
touch(order, key) == Append(without(order, key), key)

RECURSIVE withoutAll(_, _)
withoutAll(s, ks) ==
  IF ks = << >> THEN s ELSE withoutAll(without(s, Head(ks)), Tail(ks))

\* the keys addLocked evicts, in the order checkCapacity removes them
RECURSIVE evictedBy(_)
evictedBy(bucket) ==
  IF bucket.size > bucket.capacity /\ bucket.evictList # << >>
  THEN LET k == bucket.evictList[Len(bucket.evictList)].key
       IN  <<k>> \o evictedBy(deleteElement(bucket, k))
  ELSE << >>

\* what an Add of key that takes effect on bucket makes of the observers;
\* follows: it is the Add of a cas whose own Get was the latest operation
ObserveAdd(who, bucket, key, value, flags, cas) ==
  LET mid == IF key \in bucket.elements
             THEN updateElement(bucket, key, value, flags, cas)
             ELSE addElement(bucket, key, value, flags, cas)
      ev  == evictedBy(mid)
      b   == bucketOf(key)
      ord == touch(touched, key)
  IN  /\ lastOp' = [NoOp EXCEPT
                      !.op = "Add", !.conn = who.conn, !.cmd = who.cmd,
                      !.key = key, !.hit = TRUE,
                      !.updated = (key \in bucket.elements),
                      !.evicted = ev,
                      !.byTouch = SelectSeq(ord, LAMBDA x :
                                    bucketOf(x) = b /\ x \in mid.elements),
                      !.value = value, !.flags = flags,
                      !.follows = /\ who.cmd = cmdCas
                                  /\ lastOp.op = "Get"
                                  /\ lastOp.cmd = cmdCas
                                  /\ lastOp.conn = who.conn]
      /\ touched' = withoutAll(ord, ev)
      /\ casWon' = IF who.cmd = cmdCas THEN casWon \cup {who.reqCas}
                   ELSE casWon

\* follows: the Get comes right after the Add of a set of the same key
ObserveGet(who, bucket, key, moved) ==
  LET hit == key \in bucket.elements
  IN  /\ lastOp' = [NoOp EXCEPT
                      !.op = "Get", !.conn = who.conn, !.cmd = who.cmd,
                      !.key = key, !.hit = hit,
                      !.follows = /\ lastOp.op = "Add"
                                  /\ lastOp.cmd = cmdSet
                                  /\ lastOp.key = key]
      /\ touched' = IF hit /\ moved THEN touch(touched, key) ELSE touched
      /\ UNCHANGED casWon

ObserveDelete(who, bucket, key) ==
  /\ lastOp' = [NoOp EXCEPT
                  !.op = "Delete", !.conn = who.conn, !.cmd = who.cmd,
                  !.key = key, !.hit = (key \in bucket.elements)]
  /\ touched' = without(touched, key)
  /\ UNCHANGED casWon

(***************************************************************************)
(* SpecEngine: one caller of the engine; every operation completes before  *)
(* the next one starts.                                                    *)
(***************************************************************************)
EngineKeys == {"a", "b", "c"}

\* connReader: where it stands ("off": not started, "scan": in
\* scanner.Scan, "send": in requests <- request, "done": returned), the
\* Request it is sending, the number of client requests it has read, the
\* data line of the latest one if it has been left unread, and whether it
\* returns after the send
NoReader ==
  [pc |-> "off", request |-> NoRequest, no |-> 0, unread |-> NoLine,
   eof |-> FALSE, readErr |-> NoError]

\* n workers, the first of them running the handlers of the connections
\* cs; no other connection has been accepted
InitPool(n, m, cs) ==
  /\ numWorkers = n
  /\ maxNumConnections = m
  /\ listening = TRUE
  /\ queue = << >>
  /\ held = NoConn
  /\ nAccepted = Cardinality(cs)
  /\ worker = [i \in 1..n |->
                 IF i <= Cardinality(cs) THEN arrival[i] ELSE NoConn]
  /\ quit = FALSE
  /\ stopPc = "idle"

InitHandlers(cs, w) ==
  /\ conns = cs
  /\ workload = w
  /\ pc = [c \in Conns |-> IF c \in cs THEN "select" ELSE "closed"]
  /\ request = [c \in Conns |-> NoRequest]
  /\ idx = [c \in Conns |-> 0]
  /\ newCas = [c \in Conns |-> 0]
  /\ out = [c \in Conns |-> << >>]
  /\ reader = [c \in Conns |->
                 IF c \in cs THEN [NoReader EXCEPT !.pc = "scan"] ELSE NoReader]
  /\ reqNo = [c \in Conns |-> 0]
  /\ errNumUnsupportedCmds = 0
  /\ stats = [cmd \in countedCmds |-> 0]
  /\ deadline = [c \in Conns |-> IF c \in cs THEN "set" ELSE "none"]

\* the handlers of the connections cs are running, each on a worker of its
\* own
InitServer(cs, w) ==
  /\ InitHandlers(cs, w)
  /\ InitPool(Cardinality(cs), 0, cs)

InitCache ==
  /\ buckets = NewLRU(capacity, numBuckets)
  /\ casToken = 0
  /\ readers = [i \in 0..(numBuckets - 1) |-> 0]
  /\ lastOp = NoOp
  /\ touched = << >>
  /\ casWon = {}

InitEngine ==
  /\ capacity \in 0..MaxCapacity
  /\ numBuckets \in 1..MaxBuckets
  /\ InitCache
  /\ InitServer({}, "engine")

\* a token counter read and written in two steps: the value read is returned
\* as it was
getNewCasTokenStale == casToken

\* LRU.getNewCasToken
getNewCasToken == casToken + 1

\* LRU.Get, what it returns
lruGet(bucket, key) ==
  IF key \in bucket.elements
  THEN [value |-> entryOf(bucket, key).value,
        flags |-> entryOf(bucket, key).flags,
        cas |-> entryOf(bucket, key).cas,
        err |-> NoError]
  ELSE [value |-> << >>, flags |-> 0, cas |-> 0, err |-> ErrCacheMiss]

\* LRU.Add
Add(key, value, flags) ==
  LET b == bucketOf(key)
      cas == getNewCasToken
  IN  /\ casToken < MaxToken
      /\ casToken' = cas
      /\ buckets' = [buckets EXCEPT ![b] = addLocked(@, key, value, flags, cas)]
      /\ ObserveAdd(direct, buckets[b], key, value, flags, cas)
      /\ UNCHANGED <<capacity, numBuckets, readers, serverVars, handlerVars>>

\* LRU.Get
Get(key) ==
  LET b == bucketOf(key)
      ok == lruGet(buckets[b], key).err = NoError
  IN  /\ buckets' = [buckets EXCEPT ![b] = IF ok THEN refreshElement(@, key) ELSE @]
      /\ ObserveGet(direct, buckets[b], key, TRUE)
      /\ UNCHANGED <<capacity, numBuckets, casToken, readers, serverVars,
                     handlerVars>>

\* LRU.Delete
Delete(key) ==
  LET b == bucketOf(key)
      ok == key \in buckets[b].elements
  IN  /\ buckets' = [buckets EXCEPT ![b] = IF ok THEN deleteElement(@, key) ELSE @]
      /\ ObserveDelete(direct, buckets[b], key)
      /\ UNCHANGED <<capacity, numBuckets, casToken, readers, serverVars,
                     handlerVars>>

NextEngine ==
  \/ \E k \in EngineKeys, p \in Payloads : Add(k, p.value, p.flags)
  \/ \E k \in EngineKeys : Get(k)
  \/ \E k \in EngineKeys : Delete(k)

SpecEngine == InitEngine /\ [][NextEngine]_vars

(***************************************************************************)
(* The connection handler.  A handler stands in its select ("select"), or  *)
(* inside a call of the engine: before bucket.RLock of LRU.Get ("get"),    *)
(* holding it ("getLocked"), before getNewCasToken of LRU.Add ("add"),     *)
(* before bucket.Lock of LRU.Add ("addLock"), before bucket.Lock of        *)
(* LRU.Delete ("delete"); or it has returned ("closed").  In Spec and     *)
(* SpecConn a handler takes its Requests straight from the client (Recv);  *)
(* connReader, the counter of unsupported commands and the quit channel    *)
(* come in with SpecPipeline and SpecServer below.                         *)
(***************************************************************************)
setInput(key, p) ==
  clientInput(commandLine(cmdSet, <<key>>, <<p.flags, 0, Len(p.value)>>),
              p.value)

casInput(key, p, cas) ==
  clientInput(commandLine(cmdCas, <<key>>, <<p.flags, 0, Len(p.value), cas>>),
              p.value)

keysInput(cmd, keys) == clientInput(commandLine(cmd, keys, << >>), << >>)

small == [value |-> <<120>>, flags |-> 13]
large == [value |-> <<121, 122>>, flags |-> 0]

\* two clients work on one key
ContendedInputs ==
  {setInput("a", p) : p \in {small, large}}
    \cup {casInput("a", large, t) : t \in 1..MaxToken}
    \cup {keysInput(cmd, <<"a">>) : cmd \in {cmdGets, cmdDelete}}

\* one client sends every kind of request
SingleInputs ==
  {setInput("a", p) : p \in {small, large}}
    \cup {setInput(k, small) : k \in LongKeys}
    \cup {casInput("a", large, t) : t \in 1..MaxToken}
    \cup {keysInput(cmd, <<k>>) :
            cmd \in {cmdGet, cmdGets, cmdDelete}, k \in {"a", "K251"}}
    \cup {keysInput(cmdGet, ks) : ks \in {<< >>, <<"K251", "a">>}}
    \cup {keysInput(cmd, << >>) : cmd \in {cmdDelete, cmdQuit, cmdHire, "incr"}}
    \cup {clientInput(commandLine(cmdSet, <<"a">>, <<0, 0>>), << >>),
          clientInput(commandLine(cmdSet, <<"a">>, <<0, 0, 1>>), <<121, 122>>),
          clientInput(commandLine(cmdSet, <<"a">>, <<0, 0, 2>>), <<120>>),
          clientInput(commandLine(cmdSet, <<"a">>, <<0, 0, 1>>), << >>),
          clientInput(emptyLine, << >>),
          [setInput("a", small) EXCEPT !.end = 2],
          endOfStream}

\* the bytes of the line "delete a"
deleteLine == <<100, 101, 108, 101, 116, 101, 32, 97>>

\* scanner.Text() of a line that a client sent as a data block, split as
\* parseRequest splits a line
asCommandLine(data) ==
  CASE data = << >> -> emptyLine
    [] data = <<120>> -> commandLine("x", << >>, << >>)
    [] data = <<121, 122>> -> commandLine("yz", << >>, << >>)
    [] data = deleteLine -> commandLine(cmdDelete, <<"a">>, << >>)

\* a set line without its third number, followed by the data line
shortSetInput(data) ==
  clientInput(commandLine(cmdSet, <<"a">>, <<0, 0>>), data)

\* two clients send up to MaxRequests requests each, well formed or not
PipelineInputs ==
  {setInput("a", small),
   keysInput(cmdGet, <<"a">>),
   keysInput(cmdGet, << >>),
   keysInput(cmdHire, << >>),
   keysInput("incr", <<"a">>),
   keysInput(cmdDelete, << >>),
   clientInput(emptyLine, << >>),
   clientInput(commandLine(cmdSet, <<"a">>, <<0, 0, 1>>), <<121, 122>>),
   shortSetInput(<<120>>),
   shortSetInput(deleteLine),
   keysInput(cmdQuit, << >>)}

\* the clients of a server that is shut down
ServerInputs ==
  {setInput("a", small),
   keysInput(cmdGet, <<"a">>),
   keysInput(cmdDelete, <<"a">>),
   endOfStream}

\* a client whose connection reaches the read deadline
DeadlineInputs ==
  {setInput("a", small),
   keysInput(cmdGet, <<"a">>),
   keysInput(cmdDelete, <<"a">>),
   endOfStream,
   readTimeout(FALSE),
   readTimeout(TRUE)}

\* clients whose requests are counted: requests that are executed, on one
\* key or several, hitting or missing, and requests that are rejected
StatsInputs ==
  {setInput("a", small),
   casInput("a", large, 1),
   keysInput(cmdGet, <<"a">>),
   keysInput(cmdGets, <<"b", "a">>),
   keysInput(cmdDelete, <<"a">>),
   keysInput(cmdGet, <<"K251">>),
   keysInput(cmdDelete, << >>),
   keysInput(cmdQuit, << >>)}

\* clients whose requests meet on the locks of two buckets: a and c share
\* a bucket, b is in the other; the gets walks over both
LockInputs ==
  {setInput("a", small),
   setInput("c", small),
   setInput("b", large),
   keysInput(cmdGets, <<"b", "a">>),
   keysInput(cmdDelete, <<"a">>)}

\* a client whose handler returns for every reason there is
ReaderInputs ==
  {setInput("a", small),
   keysInput(cmdGets, <<"a">>),
   keysInput(cmdDelete, <<"a">>),
   shortSetInput(<<120>>),
   keysInput(cmdQuit, << >>),
   endOfStream,
   readTimeout(FALSE),
   readTimeout(TRUE)}

Inputs ==
  CASE workload = "contended" -> ContendedInputs
    [] workload = "reader" -> ReaderInputs
    [] workload = "stats" -> StatsInputs
    [] workload = "locks" -> LockInputs
    [] workload = "pipeline" -> PipelineInputs
    [] workload = "deadline" -> DeadlineInputs
    [] workload = "server" -> ServerInputs
    [] OTHER -> SingleInputs

tooLong(key) == Len(KeyBytes[key]) > maxKeyLength

\* the loop over request.keys: one reply for each key that is too long
keyLengthReplies(keys) ==
  [i \in 1..Len(SelectSeq(keys, tooLong)) |-> keyTooLong]

\* a handler that has no case for quit
isQuitNever(r) == FALSE

\* if request.cmd == cmdQuit
isQuit(r) == r.cmd = cmdQuit

\* case request := <-requests, up to the first call of the engine: where
\* the handler goes and what it has written
received(r) ==
  IF r.err = ErrEOF THEN [pc |-> "closed", out |-> << >>]
  ELSE IF r.err = ErrTimeout THEN [pc |-> "closed", out |-> << >>]
  ELSE IF r.err # NoError
  THEN [pc |-> "select", out |-> <<clientError(r.err)>>]
  ELSE IF isQuit(r) THEN [pc |-> "closed", out |-> << >>]
  ELSE LET w == keyLengthReplies(r.keys)
       IN  CASE r.cmd = cmdCas -> [pc |-> "get", out |-> w]
             [] r.cmd = cmdDelete -> [pc |-> "delete", out |-> w]
             [] r.cmd \in {cmdGet, cmdGets} ->
                  IF r.keys = << >>
                  THEN [pc |-> "select", out |-> Append(w, replyEnd)]
                  ELSE [pc |-> "get", out |-> w]
             [] r.cmd = cmdSet -> [pc |-> "add", out |-> w]
             [] r.cmd = cmdHire -> [pc |-> "select", out |-> Append(w, replyYes)]
             [] OTHER -> [pc |-> "select", out |-> Append(w, replyError)]

\* case cmdCas: the reply; replyStored stands for the branch that calls Add
casReplyNoCompare(err, entryCas, reqCas) ==
  IF err = ErrCacheMiss THEN replyNotFound
  ELSE IF err # NoError THEN replyNotStored
  ELSE replyStored

casReply(err, entryCas, reqCas) ==
  IF err = ErrCacheMiss THEN replyNotFound
  ELSE IF err # NoError THEN replyNotStored
  ELSE IF reqCas # entryCas THEN replyExists
  ELSE replyStored

\* The counters are followed under the workload "stats", whose clients
\* send a bounded number of requests; under the others they stay at 0.
counting == workload = "stats"

\* StatsNumCas.Add(1), StatsNumDelete.Add(1), ..., by the command served
statsAdd(cmd) ==
  IF counting /\ cmd \in countedCmds
  THEN [stats EXCEPT ![cmd] = @ + 1]
  ELSE stats

\* the handler takes the next Request of its connection
Recv(c) ==
  /\ pc[c] = "select"
  /\ \E in \in Inputs :
       LET r == connReader(in)
           h == received(r)
           serving == h.pc \notin {"select", "closed"}
       IN  /\ pc' = [pc EXCEPT ![c] = h.pc]
           /\ out' = [out EXCEPT ![c] = h.out]
           /\ request' = [request EXCEPT ![c] = IF serving THEN r ELSE NoRequest]
           /\ idx' = [idx EXCEPT ![c] = IF h.pc = "get" THEN 1 ELSE 0]
  /\ UNCHANGED <<engineVars, serverVars, newCas, ghostVars>>

\* a Get that returns with the read lock still held
RUnlockNever(n) == n

\* defer bucket.RUnlock(): one holder of the read lock fewer
RUnlock(n) == n - 1

\* LRU.Get up to bucket.RLock()
GetRLock(c) ==
  LET b == bucketOf(request[c].keys[idx[c]])
  IN  /\ pc[c] = "get"
      /\ readers' = [readers EXCEPT ![b] = @ + 1]
      /\ pc' = [pc EXCEPT ![c] = "getLocked"]
      /\ UNCHANGED <<capacity, numBuckets, buckets, casToken, serverVars,
                     request, idx, newCas, out, ghostVars>>

\* LRU.Get under the read lock, and what the handler does with the result.
\* refreshElement writes the list under a read lock: next to another reader
\* of the bucket the move may be lost.
GetLocked(c) ==
  LET r == request[c]
      key == r.keys[idx[c]]
      b == bucketOf(key)
      got == lruGet(buckets[b], key)
      last == idx[c] = Len(r.keys)
      answer == casReply(got.err, got.cas, r.cas)
      block == IF got.err # NoError THEN << >>
               ELSE IF r.cmd = cmdGet
               THEN <<valueBlock(key, got.flags, got.value)>>
               ELSE <<valueBlockCas(key, got.flags, got.value, got.cas)>>
      wrote == IF r.cmd = cmdCas
               THEN IF answer = replyStored THEN << >> ELSE <<answer>>
               ELSE IF last THEN Append(block, replyEnd) ELSE block
      next == IF r.cmd = cmdCas
              THEN IF answer = replyStored THEN "add" ELSE "select"
              ELSE IF last THEN "select" ELSE "get"
  IN  /\ pc[c] = "getLocked"
      /\ \E moved \in (IF readers[b] > 1 THEN {TRUE, FALSE} ELSE {TRUE}) :
           /\ buckets' = [buckets EXCEPT ![b] =
                            IF got.err = NoError /\ moved
                            THEN refreshElement(@, key) ELSE @]
           /\ ObserveGet(caller(c), buckets[b], key, moved)
      /\ readers' = [readers EXCEPT ![b] = RUnlock(@)]
      /\ out' = [out EXCEPT ![c] = @ \o wrote]
      /\ pc' = [pc EXCEPT ![c] = next]
      /\ request' = [request EXCEPT ![c] = IF next = "select" THEN NoRequest ELSE @]
      /\ idx' = [idx EXCEPT ![c] = IF next = "get" THEN @ + 1
                                   ELSE IF next = "add" THEN @ ELSE 0]
      /\ stats' = IF next = "select" THEN statsAdd(r.cmd) ELSE stats
      /\ UNCHANGED <<capacity, numBuckets, casToken, poolVars, newCas>>

\* LRU.Add: newCas := lru.getNewCasToken(), before the bucket is locked
AddToken(c) ==
  /\ pc[c] = "add"
  /\ casToken < MaxToken
  /\ casToken' = getNewCasToken
  /\ newCas' = [newCas EXCEPT ![c] = getNewCasToken]
  /\ pc' = [pc EXCEPT ![c] = "addLock"]
  /\ UNCHANGED <<capacity, numBuckets, buckets, readers, serverVars, request,
                 idx, out, ghostVars>>

\* LRU.Add under bucket.Lock(), and the reply of set and of cas
AddLocked(c) ==
  LET r == request[c]
      key == r.keys[1]
      b == bucketOf(key)
  IN  /\ pc[c] = "addLock"
      /\ readers[b] = 0
      /\ buckets' = [buckets EXCEPT ![b] =
                       addLocked(@, key, r.dataBlock, r.flags, newCas[c])]
      /\ ObserveAdd(caller(c), buckets[b], key, r.dataBlock, r.flags,
                    newCas[c])
      /\ out' = [out EXCEPT ![c] = Append(@, replyStored)]
      /\ pc' = [pc EXCEPT ![c] = "select"]
      /\ request' = [request EXCEPT ![c] = NoRequest]
      /\ idx' = [idx EXCEPT ![c] = 0]
      /\ newCas' = [newCas EXCEPT ![c] = 0]
      /\ stats' = statsAdd(r.cmd)
      /\ UNCHANGED <<capacity, numBuckets, casToken, readers, poolVars>>

\* LRU.Delete under bucket.Lock(), and the reply of delete
DeleteLocked(c) ==
  LET key == request[c].keys[1]
      b == bucketOf(key)
      ok == key \in buckets[b].elements
      reply == IF ok THEN replyDeleted ELSE replyNotFound
  IN  /\ pc[c] = "delete"
      /\ readers[b] = 0
      /\ buckets' = [buckets EXCEPT ![b] = IF ok THEN deleteElement(@, key) ELSE @]
      /\ ObserveDelete(caller(c), buckets[b], key)
      /\ out' = [out EXCEPT ![c] = Append(@, reply)]
      /\ pc' = [pc EXCEPT ![c] = "select"]
      /\ request' = [request EXCEPT ![c] = NoRequest]
      /\ stats' = statsAdd(cmdDelete)
      /\ UNCHANGED <<capacity, numBuckets, casToken, readers, poolVars, idx,
                     newCas>>

Next ==
  \/ \E c \in conns : Recv(c)
  \/ \E c \in conns : GetRLock(c)
  \/ \E c \in conns : GetLocked(c)
  \/ \E c \in conns : AddToken(c)
  \/ \E c \in conns : AddLocked(c)
  \/ \E c \in conns : DeleteLocked(c)

\* room for the two long keys; room for one small entry of key "a"
RoomyCapacity == 2 * (maxKeyLength + 2)
smallSize == Len(KeyBytes["a"]) + Len(small.value)

\* Spec: two connections work on one key
Init ==
  /\ numBuckets \in {1, MaxBuckets}
  /\ capacity = IF numBuckets = 1 THEN MaxCapacity ELSE numBuckets * smallSize
  /\ InitCache
  /\ InitServer({"c1", "c2"}, "contended")

Spec == Init /\ [][Next]_vars

\* SpecConn: one connection sends every kind of request
InitConn ==
  /\ numBuckets \in {1, MaxBuckets}
  /\ capacity = IF numBuckets = 1 THEN RoomyCapacity ELSE numBuckets * smallSize
  /\ InitCache
  /\ InitServer({"c1"}, "single")

SpecConn == InitConn /\ [][Next]_vars

(***************************************************************************)
(* The server: Start accepts connections and sends them on the channel     *)
(* conns, numWorkers workers take them from it and run handleConnection,   *)
(* which starts connReader and serves the Requests it sends; Stop closes   *)
(* the listener and the channel quit and waits for the workers.            *)
(***************************************************************************)
Workers == 1..numWorkers

\* the requests for which the handler takes the default case
unsupportedNever(r) == FALSE

unsupported(r) ==
  /\ r.err = NoError
  /\ r.cmd \notin {cmdCas, cmdDelete, cmdGet, cmdGets, cmdSet, cmdHire, cmdQuit}

\* how many requests a client sends
requestLimit ==
  IF workload \in {"server", "locks"} THEN MaxServerRequests ELSE MaxRequests

\* an unbuffered channel: a send waits for the receive of the one before
mayScanAlways(rd) == rd.pc \in {"scan", "send"}

\* connReader is at the top of its loop
mayScan(rd) == rd.pc = "scan"

\* parseRequest has failed on a set or cas line: the data line stays in
\* the scanner
unreadOf(in) ==
  IF /\ in.end = 0
     /\ in.line.cmd \in {cmdSet, cmdCas}
     /\ parseRequest(in.line).err # NoError
  THEN in.data ELSE NoLine

\* the Adds that the requests already read will make
addsAhead ==
  Cardinality({c \in Conns :
     /\ reader[c].pc = "send"
     /\ reader[c].request.err = NoError
     /\ reader[c].request.cmd \in {cmdSet, cmdCas}})
  + Cardinality({c \in Conns :
     \/ pc[c] \in {"add"}
     \/ pc[c] \in {"get", "getLocked"} /\ request[c].cmd = cmdCas})

\* a connection whose Reads never time out
pastDeadlineNever(c) == FALSE

\* a Read of the connection fails with a timeout: the deadline that
\* conn.SetReadDeadline set has passed
pastDeadline(c) == deadline[c] = "passed"

\* one round of the loop of connReader, up to its send on requests
ReaderScan(c) ==
  LET rd == reader[c]
  IN  /\ mayScan(rd)
      /\ pc[c] # "closed"
      /\ IF rd.unread # NoLine
         THEN reader' = [reader EXCEPT ![c] =
                [rd EXCEPT !.pc = "send",
                           !.request = connReader(
                              clientInput(asCommandLine(rd.unread), << >>)),
                           !.unread = NoLine,
                           !.readErr = NoError]]
         ELSE \E in \in Inputs :
                LET r == connReader(in)
                IN  /\ IF readError(in) = ErrTimeout
                       THEN pastDeadline(c)
                       ELSE rd.no < requestLimit
                    /\ (r.err = NoError /\ r.cmd \in {cmdSet, cmdCas})
                         => casToken + addsAhead < MaxToken
                    /\ reader' = [reader EXCEPT ![c] =
                         [pc |-> "send", request |-> r, no |-> rd.no + 1,
                          unread |-> unreadOf(in), eof |-> r.err = ErrEOF,
                          readErr |-> readError(in)]]
      /\ UNCHANGED <<engineVars, handlerVars, ghostVars, conns, configVars,
                     stats, acceptVars, stopVars, reqNo, errNumUnsupportedCmds,
                     deadline>>

\* case request := <-requests of the handler's select, up to the first
\* call of the engine; out collects the replies to one client request
HandlerRecv(c) ==
  LET rd == reader[c]
      r == rd.request
      h == received(r)
      serving == h.pc \notin {"select", "closed"}
  IN  /\ pc[c] = "select"
      /\ rd.pc = "send"
      /\ pc' = [pc EXCEPT ![c] = h.pc]
      /\ out' = [out EXCEPT ![c] = IF rd.no = reqNo[c] THEN @ \o h.out
                                   ELSE h.out]
      /\ request' = [request EXCEPT ![c] = IF serving THEN r ELSE NoRequest]
      /\ idx' = [idx EXCEPT ![c] = IF h.pc = "get" THEN 1 ELSE 0]
      /\ reqNo' = [reqNo EXCEPT ![c] = rd.no]
      /\ errNumUnsupportedCmds' =
           IF unsupported(r) THEN errNumUnsupportedCmds + 1
           ELSE errNumUnsupportedCmds
      /\ reader' = [reader EXCEPT ![c] =
           [rd EXCEPT !.pc = IF rd.eof THEN "done" ELSE "scan",
                      !.request = NoRequest]]
      /\ stats' = IF /\ r.err = NoError
                      /\ r.cmd \in {cmdGet, cmdGets}
                      /\ r.keys = << >>
                   THEN statsAdd(r.cmd) ELSE stats
      /\ UNCHANGED <<engineVars, newCas, ghostVars, conns, configVars,
                     acceptVars, stopVars, deadline>>

\* a select never takes the case <-server.quit
quitReadyNever == FALSE

\* <-server.quit is ready once the channel is closed
quitReady == quit

\* case <-server.quit of the handler's select
HandlerQuit(c) ==
  /\ pc[c] = "select"
  /\ quitReady
  /\ pc' = [pc EXCEPT ![c] = "closed"]
  /\ UNCHANGED <<engineVars, request, idx, newCas, out, ghostVars,
                 serverVars>>

\* the connections whose handler has not returned
handled == {c \in conns : pc[c] # "closed"}

\* a worker stands in its select
idleAlways(w) == worker[w] # "done"

\* a worker that takes a connection as soon as its handler waits for a
\* Request
idleOrWaiting(w) ==
  /\ worker[w] # "done"
  /\ IF worker[w] = NoConn THEN TRUE ELSE pc[worker[w]] \in {"closed", "select"}

idle(w) ==
  /\ worker[w] # "done"
  /\ IF worker[w] = NoConn THEN TRUE ELSE pc[worker[w]] = "closed"

\* the channel conns has room for a send
hasRoomAlways(q) == TRUE

hasRoom(q) == Len(q) < maxNumConnections

\* l.Accept() returns a connection
Accept ==
  /\ listening
  /\ held = NoConn
  /\ nAccepted < Len(arrival)
  /\ held' = arrival[nAccepted + 1]
  /\ nAccepted' = nAccepted + 1
  /\ UNCHANGED <<engineVars, handlerVars, ghostVars, conns, configVars,
                 stats, listening, queue, worker, stopVars, connVars>>

\* conns <- conn, into the buffer of the channel
Enqueue ==
  /\ held # NoConn
  /\ hasRoom(queue)
  /\ queue' = Append(queue, held)
  /\ held' = NoConn
  /\ UNCHANGED <<engineVars, handlerVars, ghostVars, conns, configVars,
                 stats, listening, nAccepted, worker, stopVars, connVars>>

\* server.handleConnection(conn) up to its select: connReader is started
handleConnection(w, c) ==
  /\ worker' = [worker EXCEPT ![w] = c]
  /\ conns' = conns \cup {c}
  /\ pc' = [pc EXCEPT ![c] = "select"]
  /\ reader' = [reader EXCEPT ![c] = [NoReader EXCEPT !.pc = "scan"]]
  /\ deadline' = [deadline EXCEPT ![c] = "set"]
  /\ UNCHANGED <<engineVars, request, idx, newCas, out, ghostVars,
                 configVars, stats, listening, nAccepted, stopVars, reqNo,
                 errNumUnsupportedCmds>>

\* case conn := <-conns of the worker's select, from the buffer
WorkerTake(w) ==
  /\ idle(w)
  /\ queue # << >>
  /\ queue' = Tail(queue)
  /\ UNCHANGED held
  /\ handleConnection(w, Head(queue))

\* case conn := <-conns of the worker's select, from the acceptor that
\* waits in its send
WorkerTakeSent(w) ==
  /\ idle(w)
  /\ queue = << >>
  /\ held # NoConn
  /\ held' = NoConn
  /\ UNCHANGED queue
  /\ handleConnection(w, held)

\* case <-server.quit of the worker's select, and the deferred wg.Done()
WorkerQuit(w) ==
  /\ idle(w)
  /\ quitReady
  /\ worker' = [worker EXCEPT ![w] = "done"]
  /\ UNCHANGED <<engineVars, handlerVars, ghostVars, conns, configVars,
                 stats, listening, queue, held, nAccepted, stopVars, connVars>>

\* Stop: s.listener.Close()
StopCloseListener ==
  /\ stopPc = "idle"
  /\ listening' = FALSE
  /\ stopPc' = "close"
  /\ UNCHANGED <<engineVars, handlerVars, ghostVars, conns, configVars,
                 stats, queue, held, nAccepted, worker, quit, connVars>>

\* Stop: close(s.quit)
StopSignal ==
  /\ stopPc = "close"
  /\ quit' = TRUE
  /\ stopPc' = "wait"
  /\ UNCHANGED <<engineVars, handlerVars, ghostVars, conns, configVars,
                 stats, acceptVars, connVars>>

\* Stop: s.wg.Wait() returns
StopReturn ==
  /\ stopPc = "wait"
  /\ \A w \in Workers : worker[w] = "done"
  /\ stopPc' = "returned"
  /\ UNCHANGED <<engineVars, handlerVars, ghostVars, conns, configVars,
                 stats, acceptVars, quit, connVars>>

NextPipeline ==
  \/ \E c \in conns : ReaderScan(c)
  \/ \E c \in conns : HandlerRecv(c)
  \/ \E c \in conns : GetRLock(c)
  \/ \E c \in conns : GetLocked(c)
  \/ \E c \in conns : AddToken(c)
  \/ \E c \in conns : AddLocked(c)
  \/ \E c \in conns : DeleteLocked(c)

\* SpecPipeline: two connections, each sending several requests
InitPipeline ==
  /\ numBuckets = 1
  /\ capacity = MaxCapacity
  /\ InitCache
  /\ InitServer({"c1", "c2"}, "pipeline")

SpecPipeline == InitPipeline /\ [][NextPipeline]_vars

NextStats ==
  \/ \E c \in conns : ReaderScan(c)
  \/ \E c \in conns : HandlerRecv(c)
  \/ \E c \in conns : GetRLock(c)
  \/ \E c \in conns : GetLocked(c)
  \/ \E c \in conns : AddToken(c)
  \/ \E c \in conns : AddLocked(c)
  \/ \E c \in conns : DeleteLocked(c)

\* SpecStats: two connections whose requests are counted
InitStats ==
  /\ numBuckets = 1
  /\ capacity = MaxCapacity
  /\ InitCache
  /\ InitServer({"c1", "c2"}, "stats")

SpecStats == InitStats /\ [][NextStats]_vars

NextLocks ==
  \/ \E c \in conns : ReaderScan(c)
  \/ \E c \in conns : HandlerRecv(c)
  \/ \E c \in conns : GetRLock(c)
  \/ \E c \in conns : GetLocked(c)
  \/ \E c \in conns : AddToken(c)
  \/ \E c \in conns : AddLocked(c)
  \/ \E c \in conns : DeleteLocked(c)

\* SpecLocks: three connections, one request each, on two buckets; each
\* bucket has room for one small entry, so that an Add evicts
InitLocks ==
  /\ numBuckets = MaxBuckets
  /\ capacity = numBuckets * smallSize
  /\ InitCache
  /\ InitServer(Conns, "locks")

SpecLocks == InitLocks /\ [][NextLocks]_vars

\* the handler of connection c takes its next step inside the engine
ServeOf(c) ==
  GetRLock(c) \/ GetLocked(c) \/ AddToken(c) \/ AddLocked(c)
    \/ DeleteLocked(c)

\* Scheduling.  Every goroutine that can run is run in the end.  A
\* goroutine waiting in bucket.Lock() gets the lock once it is free again
\* and again: sync.RWMutex keeps new readers out while a writer waits.
FairLocks == \A c \in Conns : SF_vars(ServeOf(c))

SpecLocksFair == InitLocks /\ [][NextLocks]_vars /\ FairLocks

NextServer ==
  \/ Accept
  \/ Enqueue
  \/ \E w \in Workers : WorkerTake(w)
  \/ \E w \in Workers : WorkerTakeSent(w)
  \/ \E w \in Workers : WorkerQuit(w)
  \/ \E c \in conns : ReaderScan(c)
  \/ \E c \in conns : HandlerRecv(c)
  \/ \E c \in conns : HandlerQuit(c)
  \/ \E c \in conns : GetRLock(c)
  \/ \E c \in conns : GetLocked(c)
  \/ \E c \in conns : AddToken(c)
  \/ \E c \in conns : AddLocked(c)
  \/ \E c \in conns : DeleteLocked(c)
  \/ StopCloseListener
  \/ StopSignal
  \/ StopReturn

\* SpecServer: a server as New and Start leave it, before the first Accept
InitStart ==
  /\ numBuckets = 1
  /\ capacity = MaxCapacity
  /\ InitCache
  /\ InitHandlers({}, "server")
  /\ \E n \in 1..MaxWorkers, m \in 0..MaxConnections : InitPool(n, m, {})

SpecServer == InitStart /\ [][NextServer]_vars

\* a handler inside the engine takes its next step
Serve ==
  \E c \in conns :
    GetRLock(c) \/ GetLocked(c) \/ AddToken(c) \/ AddLocked(c)
      \/ DeleteLocked(c)

\* a select takes its case <-server.quit
Quit ==
  \/ \E c \in conns : HandlerQuit(c)
  \/ \E w \in Workers : WorkerQuit(w)

\* Scheduling.  A handler that can go on inside the engine does (the locks
\* of the buckets are granted); a select whose case <-server.quit is ready
\* again and again takes it in the end, select choosing among its ready
\* cases at random; wg.Wait returns once every worker is done.
FairServer ==
  /\ WF_vars(Serve)
  /\ SF_vars(Quit)
  /\ WF_vars(StopReturn)

SpecServerFair == InitStart /\ [][NextServer]_vars /\ FairServer

\* the 30 seconds of conn.SetReadDeadline are over
DeadlineFires(c) ==
  /\ deadline[c] = "set"
  /\ pc[c] # "closed"
  /\ deadline' = [deadline EXCEPT ![c] = "passed"]
  /\ UNCHANGED <<engineVars, handlerVars, ghostVars, conns, configVars,
                 stats, acceptVars, stopVars, reader, reqNo, errNumUnsupportedCmds>>

NextDeadline ==
  \/ \E c \in conns : ReaderScan(c)
  \/ \E c \in conns : HandlerRecv(c)
  \/ \E c \in conns : GetRLock(c)
  \/ \E c \in conns : GetLocked(c)
  \/ \E c \in conns : AddToken(c)
  \/ \E c \in conns : AddLocked(c)
  \/ \E c \in conns : DeleteLocked(c)
  \/ \E c \in conns : DeadlineFires(c)

\* SpecDeadline: one connection that sends several requests and whose read
\* deadline passes at any moment
InitDeadline ==
  /\ numBuckets = 1
  /\ capacity = MaxCapacity
  /\ InitCache
  /\ InitServer({"c1"}, "deadline")

SpecDeadline == InitDeadline /\ [][NextDeadline]_vars

\* a Read of a connection that is past its deadline returns
ReadReturns ==
  \E c \in conns : pastDeadline(c) /\ ReaderScan(c)

\* the handler takes the Request that connReader is sending
Receive ==
  \E c \in conns : HandlerRecv(c)

\* Scheduling.  A Read past the deadline does not block; the handler's
\* select takes the send of connReader, the only case that is ready (the
\* server is not being stopped); a handler inside the engine goes on.
FairDeadline ==
  /\ WF_vars(ReadReturns)
  /\ WF_vars(Receive)
  /\ WF_vars(Serve)

SpecDeadlineFair == InitDeadline /\ [][NextDeadline]_vars /\ FairDeadline

\* the error of a Read on a connection that conn.Close() has closed
ErrClosed == "use of closed network connection"

\* One round of the loop of connReader after the handler has returned and
\* its deferred conn.Close() has run: a line still in the scanner is
\* served as before; otherwise the Read fails, Scan returns false and the
\* reader sends the Request of io.EOF on requests
ReaderScanClosed(c) ==
  LET rd == reader[c]
      buffered == rd.unread # NoLine
  IN  /\ mayScan(rd)
      /\ pc[c] = "closed"
      /\ reader' = [reader EXCEPT ![c] =
            [rd EXCEPT !.pc = "send",
                       !.request = IF buffered
                                   THEN connReader(clientInput(
                                          asCommandLine(rd.unread), << >>))
                                   ELSE errRequest(ErrEOF),
                       !.unread = NoLine,
                       !.eof = ~buffered,
                       !.readErr = IF buffered THEN NoError ELSE ErrClosed]]
      /\ UNCHANGED <<engineVars, handlerVars, ghostVars, conns, configVars,
                     stats, acceptVars, stopVars, reqNo, errNumUnsupportedCmds,
                     deadline>>

NextReader ==
  \/ \E c \in conns : ReaderScan(c)
  \/ \E c \in conns : ReaderScanClosed(c)
  \/ \E c \in conns : HandlerRecv(c)
  \/ \E c \in conns : HandlerQuit(c)
  \/ \E c \in conns : GetRLock(c)
  \/ \E c \in conns : GetLocked(c)
  \/ \E c \in conns : AddToken(c)
  \/ \E c \in conns : AddLocked(c)
  \/ \E c \in conns : DeleteLocked(c)
  \/ \E c \in conns : DeadlineFires(c)
  \/ StopCloseListener
  \/ StopSignal

\* SpecReader: one connection and its reader, up to the return of the
\* handler and beyond; the server may be stopped at any moment
InitReader ==
  /\ numBuckets = 1
  /\ capacity = MaxCapacity
  /\ InitCache
  /\ InitServer({"c1"}, "reader")

SpecReader == InitReader /\ [][NextReader]_vars

\* connReader gets the error of its Read on the closed connection
ReadFails ==
  \E c \in conns : ReaderScanClosed(c)

\* Scheduling.  A Read past the deadline or on a closed connection does not
\* block; the handler's select takes a case that is ready (the send of
\* connReader, and <-server.quit once quit is closed); a handler inside
\* the engine goes on.
FairReader ==
  /\ WF_vars(ReadReturns)
  /\ WF_vars(ReadFails)
  /\ WF_vars(Receive)
  /\ WF_vars(Serve)
  /\ WF_vars(Quit)

SpecReaderFair == InitReader /\ [][NextReader]_vars /\ FairReader

(***************************************************************************)
(* Properties of the engine.                                               *)
(***************************************************************************)
RECURSIVE sumSizes(_)
sumSizes(list) ==
  IF list = << >> THEN 0 ELSE size(Head(list)) + sumSizes(Tail(list))

isPrefix(s, t) ==
  /\ Len(s) <= Len(t)
  /\ \A i \in 1..Len(s) : s[i] = t[i]

lastBucket == buckets[bucketOf(lastOp.key)]

\* C3: in every bucket, after every completed Add, Get and Delete, size is
\* the sum of len(key) + len(value) over the entries the bucket stores.
SizeAccounting ==
  \A b \in DOMAIN buckets : buckets[b].size = sumSizes(buckets[b].evictList)

\* an Add has updated a stored key and evicted another entry
SizeAccountingWitness ==
  /\ lastOp.op = "Add" /\ lastOp.updated /\ lastOp.evicted # << >>
  /\ lastOp.key \in lastBucket.elements
  /\ lastBucket.size > 0

\* C4: when an Add has returned, the bucket it touched holds at most
\* capacity / numBuckets bytes, whatever the capacity.
CapacityBound ==
  /\ \A b \in DOMAIN buckets : buckets[b].capacity = capacity \div numBuckets
  /\ lastOp.op = "Add" => lastBucket.size <= lastBucket.capacity

\* an Add of an entry larger than the whole bucket has returned
CapacityBoundWitness ==
  /\ lastOp.op = "Add"
  /\ Len(lastOp.evicted) >= 2
  /\ lastOp.key \in seqRange(lastOp.evicted)

\* C5: in every bucket the keys of the table are the keys of the recency
\* list, each of them once in the list.
Bijection ==
  \A b \in DOMAIN buckets :
    /\ seqRange(keysOf(buckets[b].evictList)) = buckets[b].elements
    /\ Len(buckets[b].evictList) = Cardinality(buckets[b].elements)

\* an Add has evicted an entry and left others in the bucket
BijectionWitness ==
  /\ lastOp.op = "Add" /\ lastOp.evicted # << >>
  /\ Cardinality(lastBucket.elements) >= 2

\* C6: the entries an Add evicts are the least recently touched residents
\* of the bucket, oldest touch first; Add and a Get that hits are touches.
LruOrder ==
  lastOp.op = "Add" => isPrefix(lastOp.evicted, lastOp.byTouch)

\* the entry added first was read by Get and outlives the one added second
LruOrderWitness ==
  /\ lastOp.op = "Add" /\ Len(lastOp.evicted) = 1
  /\ casToken = 3
  /\ \E k \in lastBucket.elements : entryOf(lastBucket, k).cas = 1

(***************************************************************************)
(* Properties of the handler.                                              *)
(***************************************************************************)
stored(key) == key \in buckets[bucketOf(key)].elements
storedEntry(key) == entryOf(buckets[bucketOf(key)], key)

\* the replies a step appends to what connection c has been sent
written(c) == SubSeq(out'[c], Len(out[c]) + 1, Len(out'[c]))

\* the step is the Add of a cas of connection c: the cas stores
CasStores(c) ==
  /\ pc[c] = "addLock" /\ request[c].cmd = cmdCas
  /\ pc'[c] = "select"

\* the step is the Get of a cas of connection c: the cas compares
CasCompares(c) ==
  /\ pc[c] = "getLocked" /\ request[c].cmd = cmdCas
  /\ pc'[c] # "getLocked"

\* the step is a Get of a get of connection c that comes right after the
\* Add of a set of the same key
GetAfterSet(c) ==
  /\ pc[c] = "getLocked" /\ request[c].cmd = cmdGet
  /\ pc'[c] # "getLocked"
  /\ lastOp.op = "Add" /\ lastOp.cmd = cmdSet
  /\ lastOp.key = request[c].keys[idx[c]]

\* an entry of key and value is within the capacity of a bucket
fits(key, value) ==
  Len(KeyBytes[key]) + Len(value) <= capacity \div numBuckets

\* C1: a cas writes only if, at the moment of the write, the key is stored
\* with the token the request carries.
CasAtomic ==
  [][\A c \in Conns :
       CasStores(c) =>
         /\ stored(request[c].keys[1])
         /\ storedEntry(request[c].keys[1]).cas = request[c].cas]_vars

\* C2: the token stored for a key never decreases from one update of the
\* key to the next.
CasMonotonic ==
  [][\A k \in Keys :
       LET b == bucketOf(k)
       IN  (k \in buckets[b].elements /\ k \in buckets'[b].elements) =>
             entryOf(buckets'[b], k).cas >= entryOf(buckets[b], k).cas]_vars

\* C7: a get of k that comes right after a set of k to v with flags f
\* writes the block VALUE k f len(v) v.
RoundTripAlways ==
  [][\A c \in Conns :
       GetAfterSet(c) =>
         /\ written(c) # << >>
         /\ written(c)[1] = [line |-> "VALUE", key |-> lastOp.key,
                             flags |-> lastOp.flags,
                             bytes |-> Len(lastOp.value),
                             data |-> lastOp.value]]_vars

\* C7 (amended): a get of k that comes right after a set of k to v with
\* flags f writes the block VALUE k f len(v) v if len(k) + len(v) is within
\* the capacity of a bucket, and no block for k otherwise.
RoundTrip ==
  [][\A c \in Conns :
       GetAfterSet(c) =>
         written(c) =
           (IF fits(lastOp.key, lastOp.value)
            THEN <<[line |-> "VALUE", key |-> lastOp.key,
                    flags |-> lastOp.flags, bytes |-> Len(lastOp.value),
                    data |-> lastOp.value]>>
            ELSE << >>)
           \o (IF idx[c] = Len(request[c].keys) THEN <<replyEnd>> ELSE << >>)]_vars

\* a get has found the value and the flags that the set before it stored
RoundTripWitness ==
  /\ lastOp.op = "Get" /\ lastOp.cmd = cmdGet
  /\ lastOp.follows /\ lastOp.hit
  /\ storedEntry(lastOp.key).flags = 13
  /\ \E i \in 1..Len(out[lastOp.conn]) :
       /\ out[lastOp.conn][i].line = "VALUE"
       /\ out[lastOp.conn][i].data = storedEntry(lastOp.key).value
       /\ out[lastOp.conn][i].bytes = 1

\* C8: when a key of the request is longer than 250 bytes the handler
\* writes CLIENT_ERROR and nothing else for the request, and the cache
\* never stores such a key; a request whose keys are within 250 bytes gets
\* no such CLIENT_ERROR.
KeyLengthValidation ==
  /\ \A c \in Conns :
       (\E i \in 1..Len(out[c]) : out[c][i] = keyTooLong) =>
         (\A i \in 1..Len(out[c]) : out[c][i] = keyTooLong)
  /\ \A b \in DOMAIN buckets : \A k \in buckets[b].elements : ~tooLong(k)
  /\ \A c \in Conns :
       (\A i \in 1..Len(request[c].keys) : ~tooLong(request[c].keys[i])) =>
         (\A i \in 1..Len(out[c]) : out[c][i] # keyTooLong)

\* what the Get of a cas of connection c leads to, by what is stored
casCompared(c) ==
  LET k == request[c].keys[1]
  IN  /\ ~stored(k) =>
           written(c) = <<replyNotFound>> /\ pc'[c] = "select"
      /\ (stored(k) /\ storedEntry(k).cas # request[c].cas) =>
           written(c) = <<replyExists>> /\ pc'[c] = "select"
      /\ (stored(k) /\ storedEntry(k).cas = request[c].cas) =>
           written(c) = << >> /\ pc'[c] = "add"

\* no engine operation has taken effect since the Get of the cas of c
Undisturbed(c) ==
  lastOp.op = "Get" /\ lastOp.cmd = cmdCas /\ lastOp.conn = c

\* C9: for a cas of k with token t that no connection interferes with:
\* k stored with t, the data block and the flags of the request replace
\* those of k and the reply is STORED; k stored with another token, EXISTS;
\* k not stored, NOT_FOUND.
CasOutcomesAlways ==
  [][\A c \in Conns :
       /\ CasCompares(c) => casCompared(c)
       /\ (CasStores(c) /\ Undisturbed(c)) =>
            LET k == request[c].keys[1]
                b == bucketOf(k)
            IN  /\ written(c) = <<replyStored>>
                /\ k \in buckets'[b].elements
                /\ entryOf(buckets'[b], k).value = request[c].dataBlock
                /\ entryOf(buckets'[b], k).flags = request[c].flags]_vars

\* C9 (amended): as C9, but when len(k) plus the length of the data block
\* exceeds the capacity of a bucket, the reply is STORED and k is no longer
\* stored.
CasOutcomes ==
  [][\A c \in Conns :
       /\ CasCompares(c) => casCompared(c)
       /\ (CasStores(c) /\ Undisturbed(c)) =>
            LET k == request[c].keys[1]
                b == bucketOf(k)
            IN  /\ written(c) = <<replyStored>>
                /\ IF fits(k, request[c].dataBlock)
                   THEN /\ k \in buckets'[b].elements
                        /\ entryOf(buckets'[b], k).value = request[c].dataBlock
                        /\ entryOf(buckets'[b], k).flags = request[c].flags
                   ELSE k \notin buckets'[b].elements]_vars

\* an undisturbed cas has replaced the value and the flags of its key
CasOutcomesWitness ==
  /\ lastOp.op = "Add" /\ lastOp.cmd = cmdCas
  /\ lastOp.follows /\ lastOp.updated
  /\ stored(lastOp.key)
  /\ storedEntry(lastOp.key).value = large.value
  /\ storedEntry(lastOp.key).flags = large.flags
  /\ out[lastOp.conn] = <<replyStored>>

\* C10: a token is used for at most one cas that is answered STORED.
TokenUsedOnce ==
  [][\A c \in Conns : CasStores(c) => request[c].cas \notin casWon]_vars

\* the step is the Get of a cas of connection c that is refused: the reply
\* is written and the handler is back in its select
CasRefused(c) == CasCompares(c) /\ pc'[c] = "select"

\* the entries of a bucket, by key
entriesOf(bucket) == [k \in bucket.elements |-> entryOf(bucket, k)]

\* C11: a cas that is answered EXISTS or NOT_FOUND leaves the stored keys,
\* the value, flags and token of every entry and the size of every bucket
\* as they were, and issues no token.
CasFrame ==
  [][\A c \in Conns :
       CasRefused(c) =>
         /\ written(c) \in {<<replyExists>>, <<replyNotFound>>}
         /\ casToken' = casToken
         /\ \A b \in DOMAIN buckets :
              /\ buckets'[b].elements = buckets[b].elements
              /\ buckets'[b].size = buckets[b].size
              /\ entriesOf(buckets'[b]) = entriesOf(buckets[b])]_vars

\* a cas on a stored key has been answered EXISTS
CasFrameWitness ==
  /\ lastOp.op = "Get" /\ lastOp.cmd = cmdCas /\ lastOp.hit
  /\ out[lastOp.conn] = <<replyExists>>
  /\ pc[lastOp.conn] = "select"
  /\ stored(lastOp.key)

\* the step is the Delete of a delete of connection c
Deletes(c) == pc[c] = "delete" /\ pc'[c] = "select"

\* the step is a Get of a get or gets of connection c
Fetches(c) ==
  /\ pc[c] = "getLocked" /\ request[c].cmd \in {cmdGet, cmdGets}
  /\ pc'[c] # "getLocked"

\* C12: a delete of a stored key removes it from the table and its entry
\* from the recency list, subtracts its size and is answered DELETED, and a
\* get of the key that comes next misses; a delete of an absent key is
\* answered NOT_FOUND and leaves the bucket as it was.
DeleteSemantics ==
  [][\A c \in Conns :
       /\ Deletes(c) =>
            LET k == request[c].keys[1]
                b == bucketOf(k)
                old == buckets[b]
                new == buckets'[b]
            IN  IF k \in old.elements
                THEN /\ written(c) = <<replyDeleted>>
                     /\ new.elements = old.elements \ {k}
                     /\ new.evictList =
                          SelectSeq(old.evictList, LAMBDA e : e.key # k)
                     /\ new.size = old.size - (Len(KeyBytes[k])
                                     + Len(entryOf(old, k).value))
                ELSE /\ written(c) = <<replyNotFound>>
                     /\ new = old
       /\ (/\ Fetches(c)
           /\ lastOp.op = "Delete" /\ lastOp.hit
           /\ lastOp.key = request[c].keys[idx[c]]) =>
            \A i \in 1..Len(written(c)) : written(c)[i] = replyEnd]_vars

\* a delete has removed one of several entries of a bucket
DeleteSemanticsWitness ==
  /\ lastOp.op = "Delete" /\ lastOp.cmd = cmdDelete /\ lastOp.hit
  /\ ~stored(lastOp.key)
  /\ buckets[bucketOf(lastOp.key)].evictList # << >>
  /\ replyDeleted \in seqRange(out[lastOp.conn])

open == handled \cup seqRange(queue) \cup ({held} \ {NoConn})

\* the connections Accept has returned
accepted == {arrival[i] : i \in 1..nAccepted}

\* the step is the receipt of a Request by the handler of connection c
Receives(c) == reader[c].pc = "send" /\ reader'[c].pc \in {"scan", "done"}

\* C14: on every connection the requests are answered in the order in
\* which they were read: the handler takes the request read right after
\* the one it answered last, takes it only when it has written every reply
\* to that one, and every reply it writes belongs to the request it took
\* last; connReader is never more than one request ahead.
RepliesInOrder ==
  /\ [](\A c \in Conns :
          /\ reqNo[c] <= reader[c].no
          /\ reader[c].no <= reqNo[c] + 1
          /\ reader[c].pc = "scan" => reader[c].no = reqNo[c])
  /\ [][\A c \in Conns :
          /\ Receives(c) =>
               /\ pc[c] = "select"
               /\ reqNo'[c] = reader[c].no
               /\ out'[c] = IF reqNo'[c] = reqNo[c]
                            THEN out[c] \o received(reader[c].request).out
                            ELSE received(reader[c].request).out
          /\ ~Receives(c) =>
               /\ reqNo'[c] = reqNo[c]
               /\ isPrefix(out[c], out'[c])
               /\ out'[c] # out[c] => pc[c] \notin {"select", "closed"}]_vars

\* the second request of a connection waits while the first is inside the
\* engine, and the other connection has had a request answered
RepliesInOrderWitness ==
  \E c, d \in Conns :
    /\ c # d
    /\ reader[c].pc = "send" /\ reader[c].no = 2 /\ reqNo[c] = 1
    /\ pc[c] \notin {"select", "closed"}
    /\ reqNo[d] >= 1 /\ out[d] # << >>

\* the step is the receipt of a request with a verb outside verbs
TakesVerbOutside(c, verbs) ==
  /\ Receives(c)
  /\ reader[c].request.err = NoError
  /\ reader[c].request.cmd \notin verbs

\* the verbs that have a case of their own in the handler
caseVerbs == {cmdGet, cmdGets, cmdSet, cmdCas, cmdDelete, cmdQuit, cmdHire}

\* an unsupported command: ERROR, one more in the counter, the cache as it
\* was, the handler back in its select
AnsweredError(c) ==
  /\ out'[c] = (IF reader[c].no = reqNo[c] THEN out[c] ELSE << >>)
                 \o <<replyError>>
  /\ errNumUnsupportedCmds' = errNumUnsupportedCmds + 1
  /\ buckets' = buckets /\ casToken' = casToken
  /\ pc'[c] = "select"

ParseErrorsNotFatal ==
  \A c \in Conns :
    (/\ out[c] # << >>
     /\ out[c][1].line = "CLIENT_ERROR"
     /\ out[c][1] # keyTooLong)
      => /\ Len(out[c]) = 1
         /\ pc[c] = "select"

\* C17: once quit is closed, every handler closes its connection and
\* returns, every worker reports done and Stop returns.
ShutdownCompletes ==
  quit ~> (/\ stopPc = "returned"
           /\ \A w \in Workers : worker[w] = "done"
           /\ \A c \in conns : pc[c] = "closed")

\* Stop has returned after handlers that had served requests were closed
ShutdownCompletesWitness ==
  /\ stopPc = "returned"
  /\ \E c \in conns : reqNo[c] >= 1 /\ out[c] # << >>
  /\ \A c \in conns : pc[c] = "closed"

\* C18: once quit is closed no worker takes a connection and no handler
\* serves a request it receives.
NothingNewAfterQuit ==
  [][quit =>
       /\ \A w \in Workers : worker'[w] \in Conns => worker'[w] = worker[w]
       /\ \A c \in Conns : Receives(c) => pc'[c] = "closed"]_vars

AdmissionControl ==
  /\ [](/\ Len(queue) <= maxNumConnections
        /\ accepted = conns \cup seqRange(queue) \cup ({held} \ {NoConn})
        /\ Cardinality(accepted) =
             Cardinality(conns) + Len(queue) + (IF held = NoConn THEN 0 ELSE 1))
  /\ [][/\ nAccepted' # nAccepted => held = NoConn /\ held' = arrival[nAccepted']
        /\ (held # NoConn /\ held' # held) =>
             /\ held' = NoConn
             /\ \/ /\ Len(queue) < maxNumConnections
                   /\ queue' = Append(queue, held)
                \/ /\ held \in conns' \ conns
                   /\ queue' = queue]_vars

\* the channel is full and the acceptor waits in its send
AdmissionControlWitness ==
  /\ maxNumConnections >= 1
  /\ Len(queue) = maxNumConnections
  /\ held # NoConn
  /\ nAccepted = Len(queue) + Cardinality(conns) + 1

\* the bucket a handler holds the read lock of
lockedBucket(c) == bucketOf(request[c].keys[idx[c]])

\* C23: no two operations that change a bucket run at the same time: two
\* handlers are never both inside LRU.Get on the same bucket when one of
\* them is about to move an element of its recency list.
MutationExclusive ==
  \A c, d \in conns :
    (/\ c # d
     /\ pc[c] = "getLocked" /\ pc[d] = "getLocked"
     /\ lockedBucket(c) = lockedBucket(d))
      => ~stored(request[c].keys[idx[c]])

\* C24: connReader makes a Request only of a line that the client sent as
\* a request line, never of the data line of a set or cas.
DataLineConsumed ==
  [][\A c \in Conns :
       (reader[c].pc = "scan" /\ reader'[c].pc = "send")
         => reader[c].unread = NoLine]_vars

\* C29: when Stop has returned the acceptor is not waiting in a send on
\* conns that no worker is left to receive.
AcceptorReleased == stopPc = "returned" => held = NoConn

\* C30: a worker takes a connection only when it has none or when the
\* handler of the one it took last has returned; every connection being
\* served is the latest of exactly one worker, so at most numWorkers are
\* served at a time.
WorkerPoolBound ==
  /\ [](/\ Cardinality(handled) <= numWorkers
        /\ \A c \in handled :
             Cardinality({w \in Workers : worker[w] = c}) = 1)
  /\ [][\A w \in Workers :
          (worker'[w] # worker[w] /\ worker'[w] \in Conns)
            => /\ worker[w] = NoConn \/ worker[w] \notin handled
               /\ worker'[w] \notin conns
               /\ worker'[w] \in handled']_vars

\* every worker is serving a connection of its own and another connection
\* waits in the channel
WorkerPoolBoundWitness ==
  /\ numWorkers = MaxWorkers
  /\ Cardinality(handled) = numWorkers
  /\ queue # << >>
  /\ \E c \in handled : pc[c] \notin {"select", "closed"}

\* the step is the receipt of a well-formed request with the verb cmd
TakesVerb(c, cmd) ==
  /\ Receives(c)
  /\ reader[c].request.err = NoError
  /\ reader[c].request.cmd = cmd

\* the replies to the client request that the Request taken belongs to,
\* as they stand before the handler has answered it
repliesSoFar(c) == IF reader[c].no = reqNo[c] THEN out[c] ELSE << >>

\* C22: on a quit request the handler writes nothing, leaves the cache and
\* the counter as they were and returns, which closes the connection and
\* puts its worker back into its select; the handler of a closed
\* connection takes no further Request and writes nothing.
QuitCloses ==
  [][\A c \in Conns :
       /\ TakesVerb(c, cmdQuit) =>
            /\ out'[c] = repliesSoFar(c)
            /\ pc'[c] = "closed"
            /\ request'[c] = NoRequest
            /\ buckets' = buckets /\ casToken' = casToken
            /\ errNumUnsupportedCmds' = errNumUnsupportedCmds
            /\ \A w \in Workers :
                 worker[w] = c => worker'[w] = c /\ c \notin handled'
       /\ (c \in conns /\ pc[c] = "closed") =>
            /\ ~Receives(c)
            /\ pc'[c] = "closed"
            /\ out'[c] = out[c]]_vars

\* a connection has been closed by a quit that came after another request
\* of the client, which is still waiting to send more
QuitClosesWitness ==
  \E c \in conns :
    /\ pc[c] = "closed"
    /\ reqNo[c] = 2 /\ out[c] = << >>
    /\ reader[c].pc = "scan"
    /\ \E w \in Workers : worker[w] = c

\* a request line of get, gets, delete, set or cas that lacks a field
lacksField(r) ==
  \/ r.cmd \in {cmdGet, cmdGets, cmdDelete} /\ r.keys = << >>
  \/ r.cmd \in {cmdSet, cmdCas} /\ r.keys = << >>

\* C27: a request of get, gets, delete, set or cas that lacks a required
\* field reaches the handler as a parse error and is answered
\* CLIENT_ERROR, with no call of the engine.
MissingFieldRejected ==
  [][\A c \in Conns :
       (Receives(c) /\ lacksField(reader[c].request)) =>
         /\ reader[c].request.err # NoError
         /\ out'[c] = Append(repliesSoFar(c),
                             clientError(reader[c].request.err))
         /\ pc'[c] = "select"]_vars

\* the client's input is a set or cas line that parses, followed by a data
\* line
announces(in) ==
  /\ in.end = 0
  /\ parseRequest(in.line).cmd \in {cmdSet, cmdCas}
  /\ parseRequest(in.line).err = NoError

\* what connReader makes of the data line of every input that announces n
\* bytes: an error when the line is longer than n, the line itself otherwise
lengthChecked ==
  \A in \in Inputs :
    announces(in) =>
      LET r == parseRequest(in.line)
      IN  IF Len(in.data) > r.n
          THEN connReader(in) = errRequest(ErrDataTooLong)
          ELSE connReader(in) = [r EXCEPT !.dataBlock = in.data]

\* the step takes a Request and answers that its data line was too long
RejectsData(c) ==
  /\ pc[c] = "select"
  /\ out'[c] = <<[line |-> "CLIENT_ERROR", msg |-> ErrDataTooLong]>>

\* the step is the Add of a set of connection c
SetStores(c) ==
  /\ pc[c] = "addLock" /\ request[c].cmd = cmdSet
  /\ pc'[c] = "select"

TakesTooLong(c) ==
  /\ Receives(c)
  /\ reader[c].request.err = ErrDataTooLong

\* the step writes STORED to connection c
WritesStored(c) ==
  /\ out'[c] # out[c]
  /\ out'[c] # << >>
  /\ out'[c][Len(out'[c])] = [line |-> "STORED"]

\* bucket b after LRU.Add of the Request that the handler of c is serving
afterAdd(c, b) ==
  LET r == request[c]
      k == r.keys[1]
      bucket == buckets[b]
  IN  checkCapacity(IF k \in bucket.elements
                    THEN updateElement(bucket, k, r.dataBlock, r.flags,
                                       newCas[c])
                    ELSE addElement(bucket, k, r.dataBlock, r.flags,
                                    newCas[c]))

\* STORED is written in the step in which LRU.Add has run, under the lock of
\* the bucket, with the data block of a set or cas
StoredByAdd(c) ==
  /\ pc[c] = "addLock"
  /\ request[c].cmd \in {cmdSet, cmdCas}
  /\ readers[bucketOf(request[c].keys[1])] = 0
  /\ buckets' = [buckets EXCEPT ![bucketOf(request[c].keys[1])] =
                   afterAdd(c, bucketOf(request[c].keys[1]))]

\* C26 (as stated): a set whose data block is malformed is answered
\* NOT_STORED and stores nothing; STORED is written only when the value has
\* been handed to the engine.
MalformedNotStored ==
  [][\A c \in Conns :
       /\ TakesTooLong(c) =>
            /\ out'[c] = Append(repliesSoFar(c), [line |-> "NOT_STORED"])
            /\ pc'[c] = "select"
            /\ UNCHANGED <<buckets, casToken>>
       /\ WritesStored(c) => StoredByAdd(c)]_vars

\* C26 (amended): a set whose data block is malformed (longer than
\* announced) is answered CLIENT_ERROR data block provided is too long and
\* stores nothing; STORED is written only in the step in which LRU.Add has
\* put the data block of the request into the bucket of its key.
MalformedDataBlock ==
  [][\A c \in Conns :
       /\ TakesTooLong(c) =>
            /\ out'[c] = Append(repliesSoFar(c),
                                [line |-> "CLIENT_ERROR", msg |-> ErrDataTooLong])
            /\ pc'[c] = "select"
            /\ UNCHANGED <<buckets, casToken>>
       /\ WritesStored(c) => StoredByAdd(c)]_vars

\* a connection was answered STORED for a set and then CLIENT_ERROR for a
\* set whose data line was too long, and the value of the first is stored
MalformedDataBlockWitness ==
  /\ stored("a") /\ storedEntry("a").value = small.value
  /\ \E c \in Conns :
       /\ reqNo[c] = 2
       /\ out[c] = <<clientError(ErrDataTooLong)>>
       /\ lastOp.op = "Add" /\ lastOp.conn = c

\* C28 (as stated): connReader tells the end of the stream from every other
\* failure of a Read: after io.EOF it sends the Request of io.EOF and
\* returns, after any other error it sends a Request that carries that
\* error and goes on.
ReadErrorsCarried ==
  \A c \in Conns :
    (reader[c].pc = "send" /\ reader[c].readErr # NoError) =>
      /\ reader[c].request.err = reader[c].readErr
      /\ reader[c].eof <=> reader[c].readErr = ErrEOF

\* C21: the read deadline is set once, when the handler starts, and is
\* never set again; once it has passed, the handler returns in the end,
\* which closes the connection, whatever the client has sent and sends.
DeadlineCloses ==
  /\ [][\A c \in Conns :
          /\ deadline[c] = "passed" => deadline'[c] = "passed"
          /\ (deadline'[c] = "set" /\ deadline[c] # "set") =>
               (deadline[c] = "none" /\ pc'[c] = "select" /\ reqNo'[c] = 0)]_vars
  /\ \A c \in Conns : (deadline[c] = "passed") ~> (pc[c] = "closed")

\* a connection that was served two requests, one of them a set, has been
\* closed by a Read that timed out
DeadlineClosesWitness ==
  \E c \in conns :
    /\ deadline[c] = "passed" /\ pc[c] = "closed"
    /\ reader[c].readErr = ErrTimeout
    /\ reqNo[c] = 3
    /\ stored("a")

\* the tokens that the Adds in progress hold and the tokens of the entries
\* stored
tokensHeld == {c \in Conns : pc[c] = "addLock"}
tokenOf(k) == storedEntry(k).cas

\* C31: every Add is issued exactly one token, by the step that takes it to
\* the lock of its bucket; the k-th token issued is k, starting from 1, so
\* tokens held and tokens stored are pairwise distinct; no other step (Get,
\* Delete, a cas that is refused) issues a token.
TokenIssue ==
  /\ [](/\ \A c \in tokensHeld : newCas[c] \in 1..casToken
        /\ \A c, d \in tokensHeld : c # d => newCas[c] # newCas[d]
        /\ \A k \in Keys : stored(k) =>
             /\ tokenOf(k) \in 1..casToken
             /\ \A c \in tokensHeld : newCas[c] # tokenOf(k)
             /\ \A j \in Keys : (stored(j) /\ j # k) => tokenOf(j) # tokenOf(k))
  /\ [][/\ casToken' # casToken =>
             /\ casToken' = casToken + 1
             /\ buckets' = buckets
             /\ \E c \in Conns :
                  /\ pc[c] = "add" /\ pc'[c] = "addLock"
                  /\ newCas'[c] = casToken'
        /\ \A c \in Conns :
             /\ (pc[c] = "add" /\ pc'[c] # "add") =>
                  (pc'[c] = "addLock" /\ casToken' = casToken + 1)
             /\ (pc[c] = "addLock" /\ pc'[c] # "addLock") =>
                  LET k == request[c].keys[1]
                      b == bucketOf(k)
                  IN  /\ casToken' = casToken
                      /\ k \in buckets'[b].elements =>
                           entryOf(buckets'[b], k).cas = newCas[c]]_vars

\* two Adds hold a token each at the same time, the second and the third
\* token issued
TokenIssueWitness ==
  /\ casToken = 3
  /\ \E c, d \in Conns :
       /\ c # d /\ pc[c] = "addLock" /\ pc[d] = "addLock"
       /\ newCas[c] = 3 /\ newCas[d] = 2

\* hash(k) mod num_shards, from the two halves of the 32-bit hash
shardOf(k) ==
  (((KeyHash[k][1] % numBuckets) * (65536 % numBuckets))
     + (KeyHash[k][2] % numBuckets)) % numBuckets

\* C32: a key is stored only in the shard hash(k) mod num_shards, which
\* never changes; an operation on k leaves every other shard as it was
\* (entries, recency order, size), and what it evicts comes from the shard
\* of k.
ShardIsolation ==
  /\ [](\A i \in DOMAIN buckets :
          /\ \A k \in buckets[i].elements : shardOf(k) = i
          /\ \A j \in 1..Len(buckets[i].evictList) :
               shardOf(buckets[i].evictList[j].key) = i)
  /\ [][/\ numBuckets' = numBuckets
        /\ \A i \in DOMAIN buckets :
             i # shardOf(lastOp'.key) => buckets'[i] = buckets[i]
        /\ \A k \in Keys :
             (/\ k \in buckets[shardOf(k)].elements
              /\ shardOf(k) # shardOf(lastOp'.key)) =>
               /\ k \in buckets'[shardOf(k)].elements
               /\ k \notin seqRange(lastOp'.evicted)]_vars

\* the third Add has evicted an entry of its shard while the entry added
\* first, the least recently touched of the engine, stays in the other shard
ShardIsolationWitness ==
  /\ numBuckets = 2 /\ casToken = 3
  /\ lastOp.op = "Add" /\ Len(lastOp.evicted) = 1
  /\ Len(touched) = 2
  /\ shardOf(touched[1]) # shardOf(lastOp.key)
  /\ stored(touched[1]) /\ storedEntry(touched[1]).cas = 1

\* len(k) + len(v) of the Add that took effect last
lastSize == Len(KeyBytes[lastOp.key]) + Len(lastOp.value)

\* C33: after Add(k, v) has returned, k is stored in its shard if and only
\* if len(k) + len(v) is at most the capacity of the shard; when it is
\* larger, the shard is empty: no key in the table, no element in the list,
\* size 0.
OversizedEntries ==
  lastOp.op = "Add" =>
    /\ lastOp.key \in lastBucket.elements <=> lastSize <= lastBucket.capacity
    /\ lastSize > lastBucket.capacity =>
         /\ lastBucket.elements = {}
         /\ lastBucket.evictList = << >>
         /\ lastBucket.size = 0

\* an Add has replaced the value of a stored key by one that is larger than
\* the shard and has emptied a shard of two entries
OversizedEntriesWitness ==
  /\ lastOp.op = "Add" /\ lastOp.updated
  /\ lastSize > lastBucket.capacity /\ lastBucket.capacity > 0
  /\ Len(lastOp.evicted) = 2
  /\ lastOp.evicted[2] = lastOp.key
  /\ lastBucket.elements = {}

\* the entries that the Add recorded in op has evicted from bucket, the
\* entry of its own key as the Add has made it
evictedEntries(bucket, op) ==
  [j \in 1..Len(op.evicted) |->
     IF op.evicted[j] = op.key
     THEN newEntry(op.key, op.value, op.flags, 0)
     ELSE entryOf(bucket, op.evicted[j])]

\* C34: an Add on a key that is stored replaces value, flags and token of
\* its entry and moves it to the front; the number of entries changes only
\* by what is evicted, and size changes by len(new value) - len(old value),
\* less the sizes of what is evicted: a shorter value makes size smaller by
\* the difference and size does not wrap around.
UpdateInPlace ==
  [][(lastOp'.op = "Add" /\ lastOp'.updated) =>
       LET k == lastOp'.key
           b == shardOf(k)
           old == entryOf(buckets[b], k)
           ev == evictedEntries(buckets[b], lastOp')
       IN  /\ k \in buckets[b].elements
           /\ Cardinality(buckets'[b].elements) + Len(ev)
                = Cardinality(buckets[b].elements)
           /\ Len(buckets'[b].evictList) + Len(ev) = Len(buckets[b].evictList)
           /\ buckets'[b].size + sumSizes(ev)
                = buckets[b].size + Len(lastOp'.value) - Len(old.value)
           /\ buckets'[b].size <= buckets[b].size + Len(lastOp'.value)
           /\ k \in buckets'[b].elements =>
                /\ buckets'[b].evictList[1]
                     = [key |-> k, value |-> lastOp'.value,
                        flags |-> lastOp'.flags, cas |-> casToken']
                /\ casToken' = casToken + 1
                /\ old.cas < casToken']_vars

\* an Add has replaced a value of two bytes by an empty one, next to
\* another entry, and nothing was evicted
UpdateInPlaceWitness ==
  /\ lastOp.op = "Add" /\ lastOp.updated /\ lastOp.evicted = << >>
  /\ lastOp.value = << >>
  /\ Cardinality(lastBucket.elements) = 2
  /\ lastBucket.size = 3
  /\ casToken = 3

\* the step ends the handling of a Request of connection c that the handler
\* took from its select: the handler is back in the select
Completes(c) ==
  /\ pc'[c] = "select"
  /\ \/ pc[c] \notin {"select", "closed"}
     \/ pc[c] = "select" /\ Receives(c)

\* the command of the Request whose handling the step ends
cmdDone(c) ==
  IF pc[c] = "select" THEN reader[c].request.cmd ELSE request[c].cmd

\* the request whose handling the step ends was answered CLIENT_ERROR
rejected(c) ==
  \E i \in 1..Len(out'[c]) : out'[c][i].line = "CLIENT_ERROR"

\* C35: a step that ends a request of get, gets, set, cas or delete which
\* was executed adds one to the counter of that command and changes no
\* other; a step that ends a request rejected with CLIENT_ERROR (parse
\* error, key too long), a quit and every other step change no counter.
CountersExact ==
  [][/\ \A c \in Conns :
          Completes(c) =>
            IF rejected(c) \/ cmdDone(c) \notin countedCmds
            THEN stats' = stats
            ELSE stats' = [stats EXCEPT ![cmdDone(c)] = @ + 1]
     /\ (\A c \in Conns : ~Completes(c)) => stats' = stats]_vars

\* the recency list of a bucket once Add has put the entry of op at its
\* front (addElement or updateElement) and before checkCapacity
afterPut(bucket, op, cas) ==
  <<newEntry(op.key, op.value, op.flags, cas)>>
    \o SelectSeq(bucket.evictList, LAMBDA e : e.key # op.key)

\* C37: minimal eviction.  What an Add leaves in its shard is the list with
\* the new entry at the front, cut at the back: the entries removed are the
\* least recently used ones, an entry goes only when every entry behind it
\* has gone.  The cut is the first one that brings size to at most the
\* capacity: with the last entry removed still in, size would exceed the
\* capacity; and an Add whose shard is within capacity removes nothing.
MinimalEviction ==
  [][lastOp'.op = "Add" =>
       LET b == shardOf(lastOp'.key)
           put == afterPut(buckets[b], lastOp', casToken')
           kept == buckets'[b].evictList
           n == Len(kept)
       IN  /\ isPrefix(kept, put)
           /\ buckets'[b].size = sumSizes(kept)
           /\ buckets'[b].size <= buckets[b].capacity
           /\ n < Len(put) =>
                sumSizes(SubSeq(put, 1, n + 1)) > buckets[b].capacity
           /\ sumSizes(put) <= buckets[b].capacity => kept = put]_vars

\* an Add has filled its shard beyond the capacity and exactly the least
\* recently used of three entries has gone
MinimalEvictionWitness ==
  /\ lastOp.op = "Add"
  /\ Len(lastOp.evicted) = 1
  /\ Len(lastBucket.evictList) = 2
  /\ lastBucket.size < lastBucket.capacity
  /\ lastBucket.evictList[1].key = lastOp.key

(***************************************************************************)
(* Locks of the buckets.                                                   *)
(***************************************************************************)
\* the handlers that hold the read lock of bucket b
holders(b) == {c \in Conns : pc[c] = "getLocked" /\ lockedBucket(c) = b}

\* the handlers that are inside a call of the engine
inEngine == {c \in Conns : pc[c] \notin {"select", "closed"}}

\* C36: lock discipline.  The read lock of every bucket is held by exactly
\* the handlers inside the locked section of a Get on a key of that bucket,
\* so a handler holds at most one lock, none between the keys of a
\* multi-key get and none once the operation has returned; a Get that
\* ends (hit or miss) gives its lock back, Add and Delete run with no
\* reader in the bucket and leave the locks as they were (hit, miss,
\* eviction); and under fair scheduling every handler inside the engine
\* comes back to its select: no deadlock, every Add, Get and Delete
\* terminates.
LockDiscipline ==
  /\ [](\A b \in DOMAIN readers : readers[b] = Cardinality(holders(b)))
  /\ [][\A c \in Conns :
         /\ (pc[c] = "getLocked" /\ pc'[c] # "getLocked") =>
              readers' = [readers EXCEPT ![lockedBucket(c)] = @ - 1]
         /\ (pc[c] \in {"addLock", "delete"} /\ pc'[c] = "select") =>
              /\ readers[bucketOf(request[c].keys[1])] = 0
              /\ readers' = readers]_vars
  /\ \A c \in Conns : []<>(c \notin inEngine)

\* a gets over two buckets stands between its keys, holding no lock, while
\* the other handler waits for the lock of a bucket to add an entry that
\* evicts
LockDisciplineWitness ==
  \E c, d \in conns :
    /\ pc[c] = "get" /\ idx[c] = 2
    /\ bucketOf(request[c].keys[1]) # bucketOf(request[c].keys[2])
    /\ \A b \in DOMAIN readers : readers[b] = 0
    /\ pc[d] = "addLock"
    /\ buckets[bucketOf(request[d].keys[1])].elements # {}
    /\ request[d].keys[1] \notin buckets[bucketOf(request[d].keys[1])].elements

\* C38: reader termination.  Once the handler of a connection has returned,
\* for whatever reason, the connReader of the connection returns too: it is
\* not left in its send on requests.
ReaderTerminates ==
  \A c \in Conns : (c \in conns /\ pc[c] = "closed") ~> (reader[c].pc = "done")

\* the server has closed connection c: its handler has run and returned
\* (defer conn.Close())
closedByServer(c) == c \in conns /\ pc[c] = "closed"

\* C39: no connection is orphaned.  Every connection that Accept has
\* returned and that is there when shutdown is signalled is closed by the
\* server in the end, the ones waiting in the channel conns included.
NoOrphan ==
  \A c \in Conns : (quit /\ c \in accepted) ~> closedByServer(c)

\* the reply units in what the handler wrote: a status line is a unit, the
\* VALUE blocks of a get belong to the unit that their END closes
replyUnits(o) == Len(SelectSeq(o, LAMBDA x : x.line # "VALUE"))

\* C40: one reply per request.  When the handler is back in its select
\* after a Request that is neither quit nor the end of the stream, it has
\* written exactly one reply unit for it: one status line, or the VALUE
\* blocks of a get closed by one END.
OneReply ==
  [][\A c \in Conns :
       Completes(c) =>
         /\ replyUnits(out'[c]) = 1
         /\ out'[c][Len(out'[c])].line # "VALUE"]_vars

====
